---- MODULE Spec2Model ----
(***************************************************************************)
(* Model of search/parquet_queriable.go: the parquetQuerier facade         *)
(* (Select, LabelNames, LabelValues) over a list of ParquetBlocks, and the *)
(* per-block pipelines ParquetBlock.query / labelNames / labelValues.      *)
(*                                                                         *)
(* A call is modelled step by step (one action per statement that can      *)
(* fail or touch a block), so that a cancellation of the context can fall  *)
(* between any two steps.  What a row group holds is drawn when the        *)
(* Materializer reads it: each row group is read once per call, so this is *)
(* the same as fixing the block files beforehand.                          *)
(*                                                                         *)
(* Data abstraction:                                                       *)
(*   - a label set is a sequence of <<name, value>> pairs sorted by name,  *)
(*     names and values being small integers ordered as the strings are;   *)
(*   - a chunk is the index of the time slot it covers (chunk k covers     *)
(*     [100k, 100k+100)), so a chunk list is a sequence of slot indexes,   *)
(*     and time windows are given in slots as well;                        *)
(*   - a string (label name or label value) is a sequence of character     *)
(*     codes, ordered lexicographically as Go orders strings.              *)
(***************************************************************************)
EXTENDS Integers, Sequences, FiniteSets

VARIABLES
    blocks,       \* parquetQuerier.blocks: blocks[b] = number of row groups of block b
    mint, maxt,   \* parquetQuerier.mint / maxt
    ctxDone,      \* TRUE once the caller's context is cancelled
    pc,           \* position of the call: idle, block, init, rowgroup, materialize, done
    op,           \* the method called: Select, LabelNames, LabelValues
    sorted,       \* Select's sorted argument
    hints,        \* Select's sp (*SelectHints) or the label calls' hints (*LabelHints)
    matchers,     \* the matchers argument
    win,          \* Select's locals <<minT, maxT>>
    limit,        \* the label calls' local limit
    i,            \* index of the block the caller's loop is at
    j,            \* index of the row group the block's loop is at
    results,      \* the per-block local `results`
    seriesSet,    \* Select's local seriesSet (one entry per finished block)
    resNameSets,  \* LabelNames' resNameSets / LabelValues' resNameValues
    err,          \* the error the call returned, NoErr if none
    out,          \* the series (Select) or strings (label calls) the call returned
    log           \* history: every pipeline step executed, in order

vars == <<blocks, mint, maxt, ctxDone, pc, op, sorted, hints, matchers, win, limit,
          i, j, results, seriesSet, resNameSets, err, out, log>>

----------------------------------------------------------------------------
(* Bounds *)

MaxBlocks == 2
MaxRowGroups == 2
MaxDataRowGroups == 1
MaxLimit == 2

----------------------------------------------------------------------------
(* Sequence helpers *)

Min(a, b) == IF a < b THEN a ELSE b

Range(s) == {s[k] : k \in DOMAIN s}

RECURSIVE Flatten(_)
Flatten(ss) == IF ss = <<>> THEN <<>> ELSE Head(ss) \o Flatten(Tail(ss))

SeqsUpTo(S, n) == UNION {[1..k -> S] : k \in 0..n}

----------------------------------------------------------------------------
(* Label sets and their order *)

\* labels.Compare: component-wise by name then value; on a common prefix the
\* shorter label set comes first.
RECURSIVE CompareFrom(_, _, _)
CompareFrom(a, b, k) ==
    IF k > Min(Len(a), Len(b)) THEN Len(a) - Len(b)
    ELSE IF a[k][1] # b[k][1] THEN (IF a[k][1] < b[k][1] THEN -1 ELSE 1)
    ELSE IF a[k][2] # b[k][2] THEN (IF a[k][2] < b[k][2] THEN -1 ELSE 1)
    ELSE CompareFrom(a, b, k + 1)

Compare(a, b) == CompareFrom(a, b, 1)

\* byLabels.Less
Less(x, y) == Compare(x.lbls, y.lbls) < 0

Series(l, c) == [lbls |-> l, chks |-> c]

\* {job="a"} < {job="a", x="1"} < {job="b"}
L1 == << <<1, 1>> >>
L2 == << <<1, 1>>, <<2, 1>> >>
L3 == << <<1, 2>> >>

----------------------------------------------------------------------------
(* Sorting a block's results *)

\* The arrangements sort.Sort(byLabels(s)) can leave the elements s[k], k \in I,
\* in: sort.Sort is not stable, so series with equal label sets may end up in
\* either order.
RECURSIVE SortedArrangements(_, _)
SortedArrangements(s, I) ==
    IF I = {} THEN {<<>>}
    ELSE UNION {{<<s[k]>> \o r : r \in SortedArrangements(s, I \ {k})} :
                k \in {m \in I : \A q \in I : ~Less(s[q], s[m])}}

\* A variant of SortResults that forgets the sort.
SortResultsNever(srt, s) == {s}

\* ParquetBlock.query's tail: `if sorted { sort.Sort(byLabels(results)) }`.
\* The set of values `results` can have afterwards.
SortResults(srt, s) == IF srt THEN SortedArrangements(s, DOMAIN s) ELSE {s}

----------------------------------------------------------------------------
(* Merging the blocks' series sets *)

\* Ascending sequence of the elements of a set of integers.
RECURSIVE SetToSortedSeq(_)
SetToSortedSeq(S) ==
    IF S = {} THEN <<>>
    ELSE LET m == CHOOSE x \in S : \A y \in S : x <= y
         IN <<m>> \o SetToSortedSeq(S \ {m})

\* storage.NewConcatenatingChunkSeriesMerger: the labels of the first series and
\* the chunks of all of them, one series after the other.
RECURSIVE ConcatChunks(_)
ConcatChunks(ss) == IF ss = <<>> THEN <<>> ELSE Head(ss).chks \o ConcatChunks(Tail(ss))

ConcatenatingChunkSeriesMerger(ss) == Series(ss[1].lbls, ConcatChunks(ss))

\* The heads of the sets whose index is in cur, in index order.
RECURSIVE HeadsOf(_, _, _)
HeadsOf(sets, cur, k) ==
    IF k > Len(sets) THEN <<>>
    ELSE (IF k \in cur THEN <<Head(sets[k])>> ELSE <<>>) \o HeadsOf(sets, cur, k + 1)

\* convert.NewMergeChunkSeriesSet(sets, labels.Compare, mergeFunc): a k-way
\* merge over the heads of the sets.  Each round takes the least head under
\* Compare, pops every set whose head has the same labels, emits the merge of
\* those heads as one series and advances the popped sets.
RECURSIVE NewMergeChunkSeriesSet(_)
NewMergeChunkSeriesSet(sets) ==
    LET live == {k \in DOMAIN sets : sets[k] # <<>>}
    IN IF live = {} THEN <<>>
       ELSE LET m == CHOOSE k \in live :
                        \A q \in live : Compare(Head(sets[k]).lbls, Head(sets[q]).lbls) <= 0
                cur == {k \in live : Compare(Head(sets[k]).lbls, Head(sets[m]).lbls) = 0}
                rest == [k \in DOMAIN sets |-> IF k \in cur THEN Tail(sets[k]) ELSE sets[k]]
            IN <<ConcatenatingChunkSeriesMerger(HeadsOf(sets, cur, 1))>>
                   \o NewMergeChunkSeriesSet(rest)

\* storage.ChainedSeriesMerge over the chunks of one series: the samples come
\* out in time order, and of several samples with one timestamp one is kept.
ChainedSeriesMerge(chks) == SetToSortedSeq(Range(chks))

\* storage.NewSeriesSetFromChunkSeriesSet: each chunk series becomes the chained
\* merge of its chunks.
NewSeriesSetFromChunkSeriesSet(css) ==
    [k \in DOMAIN css |-> Series(css[k].lbls, ChainedSeriesMerge(css[k].chks))]

\* A variant of SelectResult that returns the blocks' results one after the
\* other, without the merge.
SelectResultNoMerge(sets) == NewSeriesSetFromChunkSeriesSet(Flatten(sets))

\* Select's return statement.
SelectResult(sets) == NewSeriesSetFromChunkSeriesSet(NewMergeChunkSeriesSet(sets))

----------------------------------------------------------------------------
(* Merging label names / values *)

\* Go's string order on sequences of character codes.
RECURSIVE StrLessFrom(_, _, _)
StrLessFrom(a, b, k) ==
    IF k > Len(a) THEN k <= Len(b)
    ELSE IF k > Len(b) THEN FALSE
    ELSE IF a[k] # b[k] THEN a[k] < b[k]
    ELSE StrLessFrom(a, b, k + 1)

StrLess(a, b) == StrLessFrom(a, b, 1)

RECURSIVE SortStrings(_)
SortStrings(S) ==
    IF S = {} THEN <<>>
    ELSE LET m == CHOOSE x \in S : \A y \in S \ {x} : StrLess(x, y)
         IN <<m>> \o SortStrings(S \ {m})

\* util.MergeUnsortedSlices(limit, ss...): the distinct entries of all the
\* slices, sorted ascending, cut to the first `limit` when limit > 0.
MergeUnsortedSlices(lim, ss) ==
    LET all == SortStrings(UNION {Range(ss[k]) : k \in DOMAIN ss})
    IN IF lim > 0 /\ Len(all) > lim THEN SubSeq(all, 1, lim) ELSE all

\* search.MatchersToConstraint: fails when a matcher cannot be translated.
MatchersToConstraintFails(ms) == \E k \in DOMAIN ms : ms[k] = "bad"

\* Materializer.Materialize / MaterializeLabelNames / MaterializeLabelValues
\* observe the context: the errors a call can end with (NoErr: it succeeds).
MaterializeOutcomes(cancelled) ==
    IF cancelled THEN {"cancelled"} ELSE {"none", "materialize"}

----------------------------------------------------------------------------
(* Inputs *)

NoErr == "none"

NilHints == [isNil |-> TRUE, Start |-> 0, End |-> 0, Limit |-> 0]
SelectHints(s, e) == [isNil |-> FALSE, Start |-> s, End |-> e, Limit |-> 0]
LabelHints(l) == [isNil |-> FALSE, Start |-> 0, End |-> 0, Limit |-> l]

\* strings "a", "ab", "b"
StrA == <<1>>
StrAB == <<1, 2>>
StrB == <<2>>

\* What a querier is built over and with: Querier(mint, maxt) over p.blocks.
QuerierWindows == {<<1, 2>>}
BlockLists(maxRg) == SeqsUpTo(0..maxRg, MaxBlocks)

\* The series drawn for a row group are what Materialize returns for it, that is,
\* already cut to the window of the call: every window below holds slot 1, and
\* the data specification's only window holds slots 1 and 2.
\*
\* Inputs of the control-flow specification: every kind of hints, translatable
\* and untranslatable matchers, row groups that hold nothing or one entry.
CtlSelectHints == {NilHints, SelectHints(0, 3), SelectHints(1, 1)}
CtlLabelHints == {NilHints, LabelHints(1)}
CtlMatchers == {<<"eq">>, <<"eq", "bad">>}
CtlSeries == {<<>>, <<Series(L1, <<1>>)>>}
CtlStrings == {<<>>, <<StrA>>}

\* Inputs of the data specification: row groups whose series are unsorted,
\* repeat label sets across blocks and hold chunks in either time order; row
\* groups whose string lists are unsorted and overlap.
DataSelectHints == {NilHints}
DataLabelHints == {NilHints} \cup {LabelHints(l) : l \in 0..MaxLimit}
DataMatchers == {<<"eq">>}
DataSeries ==
    { <<>>,
      <<Series(L1, <<2>>)>>,
      <<Series(L1, <<1>>)>>,
      <<Series(L3, <<1>>)>>,
      <<Series(L3, <<1, 2>>), Series(L2, <<1>>)>> }
DataStrings == {<<>>, <<StrB>>, <<StrB, StrA>>, <<StrA, StrAB>>}

----------------------------------------------------------------------------
(* State after construction: NewParquetQueryable(blocks...).Querier(mint, maxt) *)

InitWith(bl) ==
    /\ blocks \in bl
    /\ \E w \in QuerierWindows : mint = w[1] /\ maxt = w[2]
    /\ ctxDone = FALSE
    /\ pc = "idle"
    /\ op = "none"
    /\ sorted = FALSE
    /\ hints = NilHints
    /\ matchers = <<>>
    /\ win = <<0, 0>>
    /\ limit = 0
    /\ i = 1
    /\ j = 1
    /\ results = <<>>
    /\ seriesSet = <<>>
    /\ resNameSets = <<>>
    /\ err = NoErr
    /\ out = <<>>
    /\ log = <<>>

Init == InitWith(BlockLists(MaxRowGroups))

InitData == InitWith(BlockLists(MaxDataRowGroups))

Params == <<blocks, mint, maxt, op, sorted, hints, matchers, win, limit>>
Locals == <<i, j, results, seriesSet, resNameSets>>

\* One pipeline step as the history records it: the step, the block and row
\* group it ran on (rg 0: the block as a whole), the time window in force,
\* whether the context was already cancelled when it started, whether it failed,
\* and what it returned (the entries a Materialize call read).
Entry(step, rg, failed, got) ==
    [step |-> step, block |-> i, rg |-> rg, win |-> win,
     cancelled |-> ctxDone, failed |-> failed, got |-> got]

----------------------------------------------------------------------------
(* The calls *)

\* A variant of SelectWindow that clamps the hints to the querier's own window.
SelectWindowClamped(sp, mn, mx) ==
    IF sp.isNil THEN <<mn, mx>>
    ELSE <<IF sp.Start > mn THEN sp.Start ELSE mn, IF sp.End < mx THEN sp.End ELSE mx>>

\* Select: minT, maxT := p.mint, p.maxt; if sp != nil { minT, maxT = sp.Start, sp.End }
SelectWindow(sp, mn, mx) == IF sp.isNil THEN <<mn, mx>> ELSE <<sp.Start, sp.End>>

\* A variant of HintsLimit that ignores the hints.
HintsLimitIgnored(h) == 0

\* LabelNames / LabelValues: limit := 0; if hints != nil { limit = hints.Limit }
HintsLimit(h) == IF h.isNil THEN 0 ELSE h.Limit

Select(Hs, Ms) ==
    /\ pc = "idle"
    /\ \E srt \in BOOLEAN, sp \in Hs, ms \in Ms :
          /\ op' = "Select"
          /\ sorted' = srt
          /\ hints' = sp
          /\ matchers' = ms
          /\ win' = SelectWindow(sp, mint, maxt)
    /\ seriesSet' = <<>>
    /\ i' = 1
    /\ pc' = "block"
    /\ UNCHANGED <<blocks, mint, maxt, ctxDone, limit, j, results, resNameSets, err, out, log>>

LabelCall(o, Hs, Ms) ==
    /\ pc = "idle"
    /\ \E h \in Hs, ms \in Ms :
          /\ op' = o
          /\ hints' = h
          /\ matchers' = ms
          /\ limit' = HintsLimit(h)
    /\ resNameSets' = <<>>
    /\ i' = 1
    /\ pc' = "block"
    /\ UNCHANGED <<blocks, mint, maxt, ctxDone, sorted, win, j, results, seriesSet, err, out, log>>

LabelNames(Hs, Ms) == LabelCall("LabelNames", Hs, Ms)

LabelValues(Hs, Ms) == LabelCall("LabelValues", Hs, Ms)

\* The caller cancels the context; it can do so at any moment before the call
\* has returned.
Cancel ==
    /\ pc # "done"
    /\ ~ctxDone
    /\ ctxDone' = TRUE
    /\ UNCHANGED <<Params, Locals, pc, err, out, log>>

----------------------------------------------------------------------------
(* Returning an error *)

\* A variant of Abort that hands out what was gathered before the error.
AbortWithPartial(e) ==
    /\ pc' = "done"
    /\ err' = e
    /\ out' = IF op = "Select" THEN SelectResult(seriesSet)
              ELSE MergeUnsortedSlices(limit, resNameSets)
    /\ UNCHANGED Locals

\* A step fails: the block function returns (nil, err) and the caller returns
\* storage.ErrSeriesSet(err) (Select) or (nil, nil, err) (label calls) at once.
Abort(e) ==
    /\ pc' = "done"
    /\ err' = e
    /\ out' = <<>>
    /\ UNCHANGED Locals

----------------------------------------------------------------------------
(* The steps of ParquetBlock.query, labelNames and labelValues.  The three *)
(* functions share their first four statements; o is the calling method.   *)

\* cs, err := MatchersToConstraint(matchers...), entered from the caller's
\* `for _, b := range p.blocks`.
ConstraintStep(o) ==
    /\ pc = "block"
    /\ op = o
    /\ i <= Len(blocks)
    /\ LET failed == MatchersToConstraintFails(matchers)
       IN /\ log' = Append(log, Entry("MatchersToConstraint", 0, failed, <<>>))
          /\ IF failed THEN Abort("translate")
             ELSE pc' = "init" /\ UNCHANGED <<Locals, err, out>>
    /\ UNCHANGED <<Params, ctxDone>>

\* err = Initialize(b.lf.Schema(), cs...), then the row-group loop starts.
InitializeStep(o) ==
    /\ pc = "init"
    /\ op = o
    /\ \E failed \in BOOLEAN :
          /\ log' = Append(log, Entry("Initialize", 0, failed, <<>>))
          /\ IF failed THEN Abort("schema")
             ELSE /\ pc' = "rowgroup"
                  /\ j' = 1
                  /\ results' = <<>>
                  /\ UNCHANGED <<i, seriesSet, resNameSets, err, out>>
    /\ UNCHANGED <<Params, ctxDone>>

\* rr, err := Filter(group, cs...)
FilterStep(o) ==
    /\ pc = "rowgroup"
    /\ op = o
    /\ j <= blocks[i]
    /\ \E failed \in BOOLEAN :
          /\ log' = Append(log, Entry("Filter", j, failed, <<>>))
          /\ IF failed THEN Abort("filter")
             ELSE pc' = "materialize" /\ UNCHANGED <<Locals, err, out>>
    /\ UNCHANGED <<Params, ctxDone>>

\* series, err := b.m.Materialize...(ctx, ...), and on success the row group's
\* entries go into results: appended one by one by query, stored as results[i]
\* by labelNames and labelValues.
MaterializeStep(o, R) ==
    /\ pc = "materialize"
    /\ op = o
    /\ \E e \in MaterializeOutcomes(ctxDone) :
          IF e # NoErr
          THEN /\ log' = Append(log, Entry("Materialize", j, TRUE, <<>>))
               /\ Abort(e)
          ELSE /\ \E series \in R :
                     /\ log' = Append(log, Entry("Materialize", j, FALSE, series))
                     /\ results' = IF o = "Select" THEN results \o series
                                   ELSE Append(results, series)
               /\ j' = j + 1
               /\ pc' = "rowgroup"
               /\ UNCHANGED <<i, seriesSet, resNameSets, err, out>>
    /\ UNCHANGED <<Params, ctxDone>>

query_MatchersToConstraint == ConstraintStep("Select")
query_Initialize == InitializeStep("Select")
query_Filter == FilterStep("Select")
query_Materialize(R) == MaterializeStep("Select", R)

labelNames_MatchersToConstraint == ConstraintStep("LabelNames")
labelNames_Initialize == InitializeStep("LabelNames")
labelNames_Filter == FilterStep("LabelNames")
labelNames_Materialize(R) == MaterializeStep("LabelNames", R)

labelValues_MatchersToConstraint == ConstraintStep("LabelValues")
labelValues_Initialize == InitializeStep("LabelValues")
labelValues_Filter == FilterStep("LabelValues")
labelValues_Materialize(R) == MaterializeStep("LabelValues", R)

\* query's tail and the caller's `seriesSet[i] = ss`.
query_return ==
    /\ pc = "rowgroup"
    /\ op = "Select"
    /\ j > blocks[i]
    /\ \E s \in SortResults(sorted, results) : seriesSet' = Append(seriesSet, s)
    /\ i' = i + 1
    /\ pc' = "block"
    /\ UNCHANGED <<Params, ctxDone, j, results, resNameSets, err, out, log>>

\* A variant of AppendResults that keeps only the last block's lists.
AppendResultsOverwrite(acc, r) == r

\* resNameSets = append(resNameSets, r...)
AppendResults(acc, r) == acc \o r

\* labelNames' / labelValues' `return results, nil` and the caller's append.
LabelBlockReturn(o) ==
    /\ pc = "rowgroup"
    /\ op = o
    /\ j > blocks[i]
    /\ resNameSets' = AppendResults(resNameSets, results)
    /\ i' = i + 1
    /\ pc' = "block"
    /\ UNCHANGED <<Params, ctxDone, j, results, seriesSet, err, out, log>>

labelNames_return == LabelBlockReturn("LabelNames")

labelValues_return == LabelBlockReturn("LabelValues")

\* Select, after its loop: the merge of the blocks' series sets.
Select_return ==
    /\ pc = "block"
    /\ op = "Select"
    /\ i > Len(blocks)
    /\ out' = SelectResult(seriesSet)
    /\ err' = NoErr
    /\ pc' = "done"
    /\ UNCHANGED <<Params, Locals, ctxDone, log>>

\* LabelNames / LabelValues, after the loop: util.MergeUnsortedSlices(limit, ...).
LabelReturn(o) ==
    /\ pc = "block"
    /\ op = o
    /\ i > Len(blocks)
    /\ out' = MergeUnsortedSlices(limit, resNameSets)
    /\ err' = NoErr
    /\ pc' = "done"
    /\ UNCHANGED <<Params, Locals, ctxDone, log>>

LabelNames_return == LabelReturn("LabelNames")

LabelValues_return == LabelReturn("LabelValues")

----------------------------------------------------------------------------
(* Specifications *)

\* Control flow: all three calls, failing steps, untranslatable matchers and a
\* context that can be cancelled between any two steps.
Next ==
    \/ Select(CtlSelectHints, CtlMatchers)
    \/ query_MatchersToConstraint
    \/ query_Initialize
    \/ query_Filter
    \/ query_Materialize(CtlSeries)
    \/ query_return
    \/ Select_return
    \/ LabelNames(CtlLabelHints, CtlMatchers)
    \/ labelNames_MatchersToConstraint
    \/ labelNames_Initialize
    \/ labelNames_Filter
    \/ labelNames_Materialize(CtlStrings)
    \/ labelNames_return
    \/ LabelNames_return
    \/ LabelValues(CtlLabelHints, CtlMatchers)
    \/ labelValues_MatchersToConstraint
    \/ labelValues_Initialize
    \/ labelValues_Filter
    \/ labelValues_Materialize(CtlStrings)
    \/ labelValues_return
    \/ LabelValues_return
    \/ Cancel

Spec == Init /\ [][Next]_vars

\* Data: the same calls over row groups with richer contents, the context left
\* alone.
NextData ==
    \/ Select(DataSelectHints, DataMatchers)
    \/ query_MatchersToConstraint
    \/ query_Initialize
    \/ query_Filter
    \/ query_Materialize(DataSeries)
    \/ query_return
    \/ Select_return
    \/ LabelNames(DataLabelHints, DataMatchers)
    \/ labelNames_MatchersToConstraint
    \/ labelNames_Initialize
    \/ labelNames_Filter
    \/ labelNames_Materialize(DataStrings)
    \/ labelNames_return
    \/ LabelNames_return
    \/ LabelValues(DataLabelHints, DataMatchers)
    \/ labelValues_MatchersToConstraint
    \/ labelValues_Initialize
    \/ labelValues_Filter
    \/ labelValues_Materialize(DataStrings)
    \/ labelValues_return
    \/ LabelValues_return

SpecData == InitData /\ [][NextData]_vars

----------------------------------------------------------------------------
(* Properties *)

SelectDone == pc = "done" /\ op = "Select" /\ err = NoErr
LabelsDone == pc = "done" /\ op \in {"LabelNames", "LabelValues"} /\ err = NoErr

\* The limit the caller asked for.
AskedLimit == IF hints.isNil THEN 0 ELSE hints.Limit

\* Every entry some Materialize call of this run has read.
EntriesRead ==
    UNION {Range(log[k].got) : k \in {q \in DOMAIN log : log[q].step = "Materialize"}}

StrictlyAscending(s) == \A k \in 1..(Len(s) - 1) : StrLess(s[k], s[k + 1])

\* The positions of block b's result that carry label set l.
Occurrences(b, l) == {k \in DOMAIN seriesSet[b] : seriesSet[b][k].lbls = l}

LabelSetsSeen ==
    UNION {{seriesSet[b][k].lbls : k \in DOMAIN seriesSet[b]} : b \in DOMAIN seriesSet}

IOSteps == {"Initialize", "Filter", "Materialize"}

\* C1: the series a sorted Select returns are non-decreasing under
\* labels.Compare over the whole result, block boundaries included.
SortedSelectIsOrdered ==
    (SelectDone /\ sorted) =>
        \A k \in 1..(Len(out) - 1) : Compare(out[k].lbls, out[k + 1].lbls) <= 0

\* C1 witness: a sorted Select over two blocks whose second block had to be
\* sorted and whose result starts with a series of the second block.
SortedSelectAcrossBlocks ==
    /\ SelectDone /\ sorted
    /\ Len(seriesSet) = 2
    /\ seriesSet[1] # <<>>
    /\ results # seriesSet[2]
    /\ Len(out) >= 2
    /\ out[1].lbls = seriesSet[2][1].lbls
    /\ out[1].lbls # seriesSet[1][1].lbls

\* C2: in a sorted Select, a label set that two or more blocks hold (once each)
\* comes out as exactly one series, whose chunks are the union of the inputs'
\* chunks, each once, in ascending time order, whatever the order of the blocks.
SortedSelectMergesDuplicates ==
    (SelectDone /\ sorted) =>
        \A l \in LabelSetsSeen :
            ( /\ \A b \in DOMAIN seriesSet : Cardinality(Occurrences(b, l)) <= 1
              /\ Cardinality({b \in DOMAIN seriesSet : Occurrences(b, l) # {}}) >= 2 )
            =>
            /\ Cardinality({k \in DOMAIN out : out[k].lbls = l}) = 1
            /\ \A k \in DOMAIN out : out[k].lbls = l =>
                  /\ \A q \in 1..(Len(out[k].chks) - 1) : out[k].chks[q] < out[k].chks[q + 1]
                  /\ Range(out[k].chks) =
                        UNION {UNION {Range(seriesSet[b][q].chks) : q \in Occurrences(b, l)} :
                                 b \in DOMAIN seriesSet}

\* C2 witness: the block holding the later chunk is listed first, and the one
\* series returned for the label set holds the two chunks in time order.
LaterBlockListedFirst ==
    /\ SelectDone /\ sorted
    /\ Len(seriesSet) = 2
    /\ seriesSet[1] = <<Series(L1, <<2>>)>>
    /\ seriesSet[2] = <<Series(L1, <<1>>)>>
    /\ out = <<Series(L1, <<1, 2>>)>>

\* C3: an unsorted Select returns the blocks' results one after the other,
\* as many series as the blocks returned together, duplicates unmerged.
UnsortedSelectIsConcatenation ==
    (SelectDone /\ ~sorted) =>
        /\ Len(out) = Len(Flatten(seriesSet))
        /\ \A k \in DOMAIN out : out[k].lbls = Flatten(seriesSet)[k].lbls

\* C4: the list LabelNames / LabelValues returns is sorted ascending, without
\* duplicates, and, with no limit, holds exactly the entries read from some
\* row group.
LabelsSortedDistinctComplete ==
    LabelsDone =>
        /\ StrictlyAscending(out)
        /\ (AskedLimit = 0 => Range(out) = EntriesRead)

\* C4 witness: two blocks whose lists are unsorted and overlap, no limit.
UnsortedOverlappingLists ==
    /\ LabelsDone
    /\ AskedLimit = 0
    /\ resNameSets = << <<StrB, StrA>>, <<StrA, StrAB>> >>
    /\ Len(blocks) = 2
    /\ out = <<StrA, StrAB, StrB>>

\* C5: with limit 0 or no hints the whole deduplicated list is returned; with
\* limit K > 0 exactly the K smallest entries of what all the blocks hold, or
\* all of them when there are at most K.
LimitKeepsSmallest ==
    LabelsDone =>
        /\ StrictlyAscending(out)
        /\ Range(out) \subseteq EntriesRead
        /\ Len(out) = IF AskedLimit = 0 THEN Cardinality(EntriesRead)
                      ELSE Min(AskedLimit, Cardinality(EntriesRead))
        /\ \A x \in EntriesRead \ Range(out) : \A y \in Range(out) : StrLess(y, x)

\* C5 witness: limit 1 over two blocks, the smallest entry being in the second.
LimitCutsAfterMerge ==
    /\ LabelsDone
    /\ ~hints.isNil /\ hints.Limit = 1
    /\ resNameSets = << <<StrB>>, <<StrA, StrAB>> >>
    /\ Len(blocks) = 2
    /\ out = <<StrA>>

\* C6: a failing step is the last step of the call, and the call then returns
\* an error and nothing else: no series, no list, none of what earlier row groups
\* or blocks gave.
FailFast ==
    /\ \A k \in DOMAIN log :
          log[k].failed => (k = Len(log) /\ pc = "done" /\ err # NoErr /\ out = <<>>)
    /\ err # NoErr => (log # <<>> /\ log[Len(log)].failed)

\* C6 witness: a Filter fails in the second block after the first block and
\* an earlier row group of the second have given series.
FailsAfterGathering ==
    /\ pc = "done" /\ op = "Select"
    /\ err = "filter"
    /\ Len(seriesSet) = 1 /\ seriesSet[1] # <<>>
    /\ results # <<>>
    /\ out = <<>>

\* C7: a Select whose context was cancelled before it completed ends with the
\* cancellation error and no series.
CancelledSelectReturnsNothing ==
    (pc = "done" /\ op = "Select" /\ ctxDone) => (err = "cancelled" /\ out = <<>>)

\* C8: a call whose matchers cannot be translated returns the translation
\* error, and no Initialize, Filter or Materialize step ran before it.
BadMatcherFailsBeforeIO ==
    (pc = "done" /\ MatchersToConstraintFails(matchers)) =>
        /\ err = "translate"
        /\ \A k \in DOMAIN log : log[k].step \notin IOSteps

\* C9: no block is entered and no row group is filtered once the context is
\* cancelled.
NoWorkStartedAfterCancel ==
    \A k \in DOMAIN log :
        log[k].step \in {"MatchersToConstraint", "Filter"} => ~log[k].cancelled

\* C10: every Materialize call of a Select gets the hints' [Start, End] when
\* hints are given and the querier's (mint, maxt) when they are not, unclamped,
\* the same for every block and row group.
SelectWindowIsHintsOrQuerier ==
    op = "Select" =>
        \A k \in DOMAIN log :
            log[k].step = "Materialize" =>
                log[k].win = IF hints.isNil THEN <<mint, maxt>>
                             ELSE <<hints.Start, hints.End>>

\* C10 witness: hints wider than the querier's window, passed to row groups of
\* two blocks.
WiderHintsReachEveryBlock ==
    /\ op = "Select"
    /\ ~hints.isNil /\ hints.Start < mint /\ hints.End > maxt
    /\ \E k, q \in DOMAIN log :
          /\ log[k].step = "Materialize" /\ log[k].block = 1
          /\ log[q].step = "Materialize" /\ log[q].block = 2 /\ log[q].rg = 2

====
